---- MODULE Spec2Model ----
(***************************************************************************)
(* Model of summarize.py: weekly CSV metrics -> statistics, prompt, plots, *)
(* one summary per week through an external text-generation process, then  *)
(* pairwise comparisons of consecutive summaries.                           *)
(*                                                                         *)
(* Text (column names, file names, process output, file content) is a      *)
(* sequence of one-character strings.  Numbers produced by pandas are      *)
(* exact rationals [nan, num, den]; nan marks pandas' NaN.  The standard   *)
(* deviation is kept as the rational under the square root.                *)
(*                                                                         *)
(* The CSV inputs are assumed present and readable, the process output     *)
(* valid UTF-8, and the plots directory initially empty.                   *)
(***************************************************************************)
EXTENDS Integers, Sequences, FiniteSets, TLC

\* ------------------------------------------------------------------ bounds
\* longest output of the external process in generate_summary
MaxOutLen == 1
\* longest output of the external process in compare_summaries
MaxCmpLen == 1
\* most columns of a dataset drawn for the per-dataset pipeline
MaxCols == 2
\* most rows of such a many-column dataset
WideRows == 1
\* most columns of an all-numeric dataset with many rows
TallCols == 1
\* most rows of such a dataset
MaxRows == 3
\* cell values are 0..MaxVal
MaxVal == 1
\* most summary files handed to compare_summaries when it is run on its own
MaxFiles == 4

\* ------------------------------------------------------------------- text
Letters ==
    {"a","b","c","d","e","f","g","h","i","j","k","l","m","n","o","p","q","r",
     "s","t","u","v","w","x","y","z","A","B","C","D","E","F","G","H","I","J",
     "K","L","M","N","O","P","Q","R","S","T","U","V","W","X","Y","Z"}

Digits == {"0","1","2","3","4","5","6","7","8","9"}

\* \w of the regular expression in clean_filename
WordChars == Letters \cup Digits \cup {"_"}

\* characters removed by str.strip()
Whitespace == {" ", "\n", "\t", "\r"}

NoStrip(s) == s

RECURSIVE LStrip(_)
LStrip(s) ==
    IF s # <<>> /\ Head(s) \in Whitespace THEN LStrip(Tail(s)) ELSE s

RECURSIVE RStrip(_)
RStrip(s) ==
    IF s # <<>> /\ s[Len(s)] \in Whitespace
    THEN RStrip(SubSeq(s, 1, Len(s) - 1))
    ELSE s

\* str.strip(): leading and trailing whitespace removed
Strip(s) == RStrip(LStrip(s))

\* all sequences over S of length at most n
SeqsUpTo(S, n) == UNION {[1..m -> S] : m \in 0..n}

Range(s) == {s[x] : x \in DOMAIN s}

\* ------------------------------------------------------- column catalog
queueLength == <<"q","u","e","u","e","L","e","n","g","t","h">>
latencyRead == <<"l","a","t","e","n","c","y","R","e","a","d">>
latencyWrite == <<"l","a","t","e","n","c","y","W","r","i","t","e">>
iopsRead == <<"i","o","p","s","R","e","a","d">>
iopsWrite == <<"i","o","p","s","W","r","i","t","e">>
throughputRead == <<"t","h","r","o","u","g","h","p","u","t","R","e","a","d">>
throughputWrite == <<"t","h","r","o","u","g","h","p","u","t","W","r","i","t","e">>

\* the dict COLUMN_DESCRIPTIONS, in its insertion order
COLUMN_DESCRIPTIONS ==
    << [col |-> queueLength,
        desc |-> "Number of requests waiting in the system queue."],
       [col |-> latencyRead,
        desc |-> "Time taken to read data (in milliseconds)."],
       [col |-> latencyWrite,
        desc |-> "Time taken to write data (in milliseconds)."],
       [col |-> iopsRead,
        desc |-> "Input/Output operations per second for read operations."],
       [col |-> iopsWrite,
        desc |-> "Input/Output operations per second for write operations."],
       [col |-> throughputRead,
        desc |-> "Amount of data read per second (in MB/s)."],
       [col |-> throughputWrite,
        desc |-> "Amount of data written per second (in MB/s)."] >>

CatalogCols == {COLUMN_DESCRIPTIONS[x].col : x \in DOMAIN COLUMN_DESCRIPTIONS}

\* ---------------------------------------------------------------- numbers
\* a pandas scalar: NaN, or the exact rational num/den (den > 0)
NaN == [nan |-> TRUE, num |-> 0, den |-> 1]

Num(a, b) == [nan |-> FALSE, num |-> a, den |-> b]

\* a <= b as Python compares floats: False as soon as one side is NaN
Leq(a, b) == ~a.nan /\ ~b.nan /\ a.num * b.den <= b.num * a.den

RECURSIVE Sum(_)
Sum(v) == IF v = <<>> THEN 0 ELSE Head(v) + Sum(Tail(v))

RECURSIVE SumSq(_)
SumSq(v) == IF v = <<>> THEN 0 ELSE Head(v) * Head(v) + SumSq(Tail(v))

RECURSIVE Insert(_, _)
Insert(x, s) ==
    IF s = <<>> THEN <<x>>
    ELSE IF x <= Head(s) THEN <<x>> \o s
    ELSE <<Head(s)>> \o Insert(x, Tail(s))

RECURSIVE Sorted(_)
Sorted(v) == IF v = <<>> THEN <<>> ELSE Insert(Head(v), Sorted(Tail(v)))

MeanOverNMinusOne(v) ==
    IF Len(v) = 0 THEN NaN
    ELSE Num(Sum(v), IF Len(v) = 1 THEN 1 ELSE Len(v) - 1)

\* Series.mean(): NaN on an empty series
SeriesMean(v) == IF Len(v) = 0 THEN NaN ELSE Num(Sum(v), Len(v))

\* Series.median(): the middle value, or the mean of the two middle values
SeriesMedian(v) ==
    LET n == Len(v)
        s == Sorted(v)
    IN IF n = 0 THEN NaN
       ELSE IF n % 2 = 1 THEN Num(s[(n + 1) \div 2], 1)
       ELSE Num(s[n \div 2] + s[n \div 2 + 1], 2)

\* Series.std(): sample standard deviation (ddof = 1), NaN below two values.
\* The record holds the variance, i.e. the rational under the square root.
SeriesStd(v) ==
    LET n == Len(v)
    IN IF n < 2 THEN NaN
       ELSE Num(n * SumSq(v) - Sum(v) * Sum(v), n * (n - 1))

\* Series.min()
SeriesMin(v) == IF Len(v) = 0 THEN NaN ELSE Num(Sorted(v)[1], 1)

\* Series.max()
SeriesMax(v) == IF Len(v) = 0 THEN NaN ELSE Num(Sorted(v)[Len(v)], 1)

\* --------------------------------------------------------------- datasets
\* A DataFrame: column labels, per column whether its dtype is numeric,
\* and the rows (one cell per column).
Col(df, c) == [r \in 1..Len(df.rows) |-> df.rows[r][c]]

NumericCols(df) == {c \in DOMAIN df.columns : df.numeric[c]}

\* a missing cell of the CSV (cells that hold a value are >= 0; the cells of
\* a text column hold the number of their text)
NA == -1

\* DataFrame.dropna(): rows with any missing cell are dropped
dropna(df) ==
    [df EXCEPT !.rows = SelectSeq(df.rows, LAMBDA row : \A c \in DOMAIN row : row[c] # NA)]

HeadRows == 100

\* DataFrame.head(100)
head(df) ==
    [df EXCEPT !.rows = SubSeq(df.rows, 1, IF Len(df.rows) < HeadRows THEN Len(df.rows) ELSE HeadRows)]

\* ------------------------------------------------- calculate_statistics
Metrics(v) ==
    [mean |-> SeriesMean(v), median |-> SeriesMedian(v), std |-> SeriesStd(v),
     min |-> SeriesMin(v), max |-> SeriesMax(v)]

\* the dict stats, as its items in insertion order
RECURSIVE StatsFrom(_, _)
StatsFrom(df, c) ==
    IF c > Len(df.columns) THEN <<>>
    ELSE (IF df.numeric[c]
          THEN << [col |-> df.columns[c], metrics |-> Metrics(Col(df, c))] >>
          ELSE <<>>) \o StatsFrom(df, c + 1)

calculate_statistics(df) == StatsFrom(df, 1)

\* ------------------------------------------------------------ format_stats
\* a / b rounded to the nearest integer, ties to even (b > 0, a >= 0)
RoundDiv(a, b) ==
    LET q == a \div b
        r == a % b
    IN IF 2 * r < b THEN q
       ELSE IF 2 * r > b THEN q + 1
       ELSE IF q % 2 = 0 THEN q ELSE q + 1

\* the nearest integer to 100 * sqrt(a / b)   (b > 0, a >= 0)
RootCents(a, b) ==
    CHOOSE h \in 0..(100 * (a \div b + 1)) :
        /\ (2 * h - 1) * (2 * h - 1) * b <= 40000 * a \/ h = 0
        /\ 40000 * a < (2 * h + 1) * (2 * h + 1) * b

\* f"{value:.2f}": "nan", or the value in hundredths
Fmt2(value, isRoot) ==
    IF value.nan THEN [nan |-> TRUE, cents |-> 0]
    ELSE [nan |-> FALSE,
          cents |-> IF isRoot THEN RootCents(value.num, value.den)
                    ELSE RoundDiv(100 * value.num, value.den)]

\* the lines "  - {stat}: {value:.2f}" of one column, in the dict's order
MetricLines(m) ==
    << [stat |-> "mean", value |-> Fmt2(m.mean, FALSE)],
       [stat |-> "median", value |-> Fmt2(m.median, FALSE)],
       [stat |-> "std", value |-> Fmt2(m.std, TRUE)],
       [stat |-> "min", value |-> Fmt2(m.min, FALSE)],
       [stat |-> "max", value |-> Fmt2(m.max, FALSE)] >>

\* one "**{col}**:" header and its metric lines per item of stats
format_stats(stats) ==
    [x \in DOMAIN stats |->
        [header |-> stats[x].col, lines |-> MetricLines(stats[x].metrics)]]

\* --------------------------------------------------------- generate_prompt
DatasetOrderDescriptions(df) ==
    LET known == SelectSeq(df.columns, LAMBDA c : c \in CatalogCols)
    IN [x \in DOMAIN known |->
          CHOOSE e \in Range(COLUMN_DESCRIPTIONS) : e.col = known[x]]

\* the lines "- **{col}**: {desc}": catalog items whose column is in df.columns
column_description_text(df) ==
    SelectSeq(COLUMN_DESCRIPTIONS, LAMBDA e : e.col \in Range(df.columns))

\* the prompt: its two variable sections (the instruction text is fixed)
generate_prompt(df, stats) ==
    [kind |-> "summary",
     descriptions |-> column_description_text(df),
     stats_text |-> format_stats(stats)]

\* ---------------------------------------------------------- clean_filename
\* characters the pattern [^\w\-_.] leaves alone
SafeChars == WordChars \cup {"-", "_", "."}

\* re.sub(r'[^\w\-_.]', '_', text)
clean_filename(text) ==
    [x \in DOMAIN text |-> IF text[x] \in SafeChars THEN text[x] ELSE "_"]

\* ------------------------------------------------------------ plot_metrics
\* os.path.basename: what follows the last "/"
RECURSIVE basename(_)
basename(path) ==
    IF \E x \in DOMAIN path : path[x] = "/"
    THEN basename(Tail(path))
    ELSE path

\* os.path.splitext(p)[0]: p up to its last ".", when a character other than
\* "." precedes that "."
splitext0(p) ==
    LET dots == {x \in DOMAIN p : p[x] = "."}
        last == CHOOSE x \in dots : \A y \in dots : y <= x
    IN IF dots = {} THEN p
       ELSE IF \A y \in 1..(last - 1) : p[y] = "." THEN p
       ELSE SubSeq(p, 1, last - 1)

png == <<".", "p", "n", "g">>

\* the file one numeric column is saved to
PlotFile(csv_name, col) ==
    [folder |-> splitext0(basename(csv_name)), name |-> clean_filename(col) \o png]

\* the files plt.savefig writes during plot_metrics(df, csv_name)
PlotFiles(df, csv_name) ==
    {PlotFile(csv_name, df.columns[c]) : c \in NumericCols(df)}

\* ------------------------------------------------------------ environment
NumWeeks == 4

DigitOf == <<"1", "2", "3", "4", "5", "6", "7", "8", "9">>

\* 'week1.csv' ... 'week4.csv'
csv_files ==
    [w \in 1..NumWeeks |-> <<"w", "e", "e", "k", DigitOf[w], ".", "c", "s", "v">>]

\* a file that does not exist / a text file holding text
NoFile == [exists |-> FALSE, text |-> <<>>]

File(text) == [exists |-> TRUE, text |-> text]

\* what an earlier run may have left in a summary file
OldSummary == File(<<"o", "l", "d">>)

\* what an earlier run may have left in the comparison file
OldDifferences ==
    [exists |-> TRUE,
     blocks |-> << [week_a |-> 1, week_b |-> 2, text |-> <<"o", "l", "d">>] >>]

NoDifferences == [exists |-> FALSE, blocks |-> <<>>]

\* the external process: its output is any text over OutChars, or it fails
OutChars == {" ", "x"}

NoResult == [returncode |-> -1, stdout |-> <<>>]

ProcessResults(maxLen) ==
    {[returncode |-> 0, stdout |-> t] : t \in SeqsUpTo(OutChars, maxLen)}
        \cup {[returncode |-> 1, stdout |-> <<>>]}

\* column names outside the catalog; clean_filename maps both to lat_rd
latSlash == <<"l", "a", "t", "/", "r", "d">>
latSpace == <<"l", "a", "t", " ", "r", "d">>
notes == <<"n", "o", "t", "e", "s">>

NoDf == [columns |-> <<>>, numeric |-> <<>>, rows |-> <<>>]

NoPrompt == [kind |-> "none"]

\* the CSV contents of the full run
CsvQueueNotes ==
    [columns |-> <<queueLength, notes>>, numeric |-> <<TRUE, FALSE>>,
     rows |-> << <<1, 0>>, <<2, 0>>, <<3, 0>>, <<4, 0>>, <<5, 0>> >>]
CsvCollide ==
    [columns |-> <<latSlash, latSpace>>, numeric |-> <<TRUE, TRUE>>,
     rows |-> << <<1, 2>>, <<NA, 3>>, <<4, 0>> >>]
CsvReversed ==
    [columns |-> <<latencyRead, latSlash, queueLength>>,
     numeric |-> <<TRUE, TRUE, TRUE>>,
     rows |-> << <<7, 1, 2>> >>]
CsvAllMissing ==
    [columns |-> <<iopsRead, notes>>, numeric |-> <<TRUE, FALSE>>,
     rows |-> << <<NA, 0>>, <<3, NA>> >>]

CsvWeeks == <<CsvQueueNotes, CsvCollide, CsvReversed, CsvAllMissing>>

\* the datasets the per-dataset pipeline is run on: up to MaxCols columns of
\* either dtype with up to WideRows rows, and up to TallCols numeric columns
\* with up to MaxRows rows
ColPool == {queueLength, latencyRead, latSlash, latSpace}

DistinctSeqs(S, n) ==
    {s \in SeqsUpTo(S, n) : \A x, y \in DOMAIN s : x # y => s[x] # s[y]}

RowsOf(numeric, maxRows) ==
    IF numeric = <<>> THEN {<<>>}
    ELSE SeqsUpTo({row \in [DOMAIN numeric -> 0..MaxVal] :
                       \A c \in DOMAIN numeric : ~numeric[c] => row[c] = 0},
                  maxRows)

WideDatasets(maxCols, maxRows) ==
    UNION {UNION {{[columns |-> cs, numeric |-> nm, rows |-> rs] :
                       rs \in RowsOf(nm, maxRows)} :
                  nm \in [DOMAIN cs -> BOOLEAN]} :
           cs \in DistinctSeqs(ColPool, maxCols)}

TallDatasets(maxCols, maxRows) ==
    UNION {{[columns |-> [c \in 1..m |-> COLUMN_DESCRIPTIONS[c].col],
             numeric |-> [c \in 1..m |-> TRUE],
             rows |-> rs] : rs \in RowsOf([c \in 1..m |-> TRUE], maxRows)} :
           m \in 0..maxCols}

\* ------------------------------------------------------------------ state
VARIABLES
    pc,              \* the statement the program is at
    csv_data,        \* the content of week1.csv .. week4.csv
    summary_files,   \* the summary paths in use, by week number
    k,               \* position of the main loop in csv_files / summary_files
    df,              \* generate_summary: the loaded dataset
    stats,           \* generate_summary: calculate_statistics(df)
    prompt,          \* the prompt of the next external call
    result,          \* what subprocess.run last returned
    plots,           \* the files under plots/
    summaries,       \* the files summaries/week{N}_summary.txt
    summaries_before, \* what they held when the run started
    i,               \* compare_summaries: the loop index (from 0)
    comparisons,     \* compare_summaries: the blocks collected so far
    outfile,         \* the file comparisons/summary_differences.txt
    outfile_before,  \* what it held when the run started
    calls            \* the external calls made so far, in order

vars ==
    <<pc, csv_data, summary_files, k, df, stats, prompt, result, plots,
      summaries, summaries_before, i, comparisons, outfile, outfile_before,
      calls>>

genLocals == <<df, stats, prompt, result>>
cmpVars == <<i, comparisons, outfile>>
env == <<csv_data, summary_files, summaries_before, outfile_before>>

\* ------------------------------------------------------- generate_summary
\* pd.read_csv(csv_file).dropna().head(100)
GenLoad ==
    /\ pc = "gen_load"
    /\ df' = head(dropna(csv_data[k]))
    /\ pc' = "gen_stats"
    /\ UNCHANGED <<env, k, stats, prompt, result, plots, summaries, cmpVars, calls>>

GenStats ==
    /\ pc = "gen_stats"
    /\ stats' = calculate_statistics(df)
    /\ pc' = "gen_prompt"
    /\ UNCHANGED <<env, k, df, prompt, result, plots, summaries, cmpVars, calls>>

GenPrompt ==
    /\ pc = "gen_prompt"
    /\ prompt' = generate_prompt(df, stats)
    /\ pc' = "gen_plot"
    /\ UNCHANGED <<env, k, df, stats, result, plots, summaries, cmpVars, calls>>

\* plot_metrics(df, csv_file): savefig creates or overwrites each file
GenPlot ==
    /\ pc = "gen_plot"
    /\ plots' = plots \cup PlotFiles(df, csv_files[k])
    /\ pc' = "gen_run"
    /\ UNCHANGED <<env, k, genLocals, summaries, cmpVars, calls>>

\* subprocess.run(['ollama', 'run', 'mistral'], ...) returns
GenRun ==
    /\ pc = "gen_run"
    /\ \E r \in ProcessResults(MaxOutLen) :
          /\ result' = r
          /\ calls' = Append(calls, [kind |-> "summary", index |-> k,
                                     ok |-> r.returncode = 0])
    /\ pc' = "gen_check"
    /\ UNCHANGED <<env, k, df, stats, prompt, plots, summaries, cmpVars>>

\* generate_summary returns to the loop of the main flow
GenReturn ==
    /\ df' = NoDf
    /\ stats' = <<>>
    /\ prompt' = NoPrompt
    /\ k' = k + 1
    /\ pc' = IF k < Len(csv_files) /\ k < Len(summary_files)
             THEN "gen_load" ELSE "cmp_open"

GenFail_Retry ==
    /\ pc = "gen_check"
    /\ result.returncode # 0
    /\ pc' = "gen_run"
    /\ UNCHANGED <<env, k, genLocals, plots, summaries, cmpVars, calls>>

GenFail_Truncates ==
    /\ pc = "gen_check"
    /\ result.returncode # 0
    /\ summaries' = [summaries EXCEPT ![summary_files[k]] = File(<<>>)]
    /\ GenReturn
    /\ UNCHANGED <<env, result, plots, cmpVars, calls>>

GenFail_DropsPlots ==
    /\ pc = "gen_check"
    /\ result.returncode # 0
    /\ plots' = plots \ PlotFiles(df, csv_files[k])
    /\ GenReturn
    /\ UNCHANGED <<env, result, summaries, cmpVars, calls>>

\* returncode != 0: the error is printed, nothing is written
GenFail ==
    /\ pc = "gen_check"
    /\ result.returncode # 0
    /\ GenReturn
    /\ UNCHANGED <<env, result, plots, summaries, cmpVars, calls>>

\* returncode == 0: open(output_txt, 'w') and write the stripped output
GenWrite ==
    /\ pc = "gen_check"
    /\ result.returncode = 0
    /\ summaries' = [summaries EXCEPT
                       ![summary_files[k]] = File(Strip(result.stdout))]
    /\ GenReturn
    /\ UNCHANGED <<env, result, plots, cmpVars, calls>>

\* ------------------------------------------------------ compare_summaries
\* the block "Week {i+1} vs Week {i+2}: {comparison_text} ----"
Block(idx, text) == [week_a |-> idx + 1, week_b |-> idx + 2, text |-> text]

Readable(idx) ==
    /\ summaries[summary_files[idx + 1]].exists
    /\ summaries[summary_files[idx + 2]].exists

\* both files of the pair open; they are read and the prompt is built
CmpOpen ==
    /\ pc = "cmp_open"
    /\ i < Len(summary_files) - 1
    /\ Readable(i)
    /\ prompt' = [kind |-> "compare", week_a |-> i + 1, week_b |-> i + 2,
                  summary1 |-> Strip(summaries[summary_files[i + 1]].text),
                  summary2 |-> Strip(summaries[summary_files[i + 2]].text)]
    /\ pc' = "cmp_run"
    /\ UNCHANGED <<env, k, df, stats, result, plots, summaries, cmpVars, calls>>

CmpOpenFail_Persists ==
    /\ pc = "cmp_open"
    /\ i < Len(summary_files) - 1
    /\ ~Readable(i)
    /\ outfile' = [exists |-> TRUE, blocks |-> comparisons]
    /\ pc' = "crashed"
    /\ UNCHANGED <<env, k, genLocals, plots, summaries, i, comparisons, calls>>

\* open() raises FileNotFoundError, which nothing catches: the run ends
CmpOpenFail ==
    /\ pc = "cmp_open"
    /\ i < Len(summary_files) - 1
    /\ ~Readable(i)
    /\ pc' = "crashed"
    /\ UNCHANGED <<env, k, genLocals, plots, summaries, cmpVars, calls>>

CmpRun ==
    /\ pc = "cmp_run"
    /\ \E r \in ProcessResults(MaxCmpLen) :
          /\ result' = r
          /\ calls' = Append(calls, [kind |-> "compare", index |-> i + 1,
                                     ok |-> r.returncode = 0])
    /\ pc' = "cmp_check"
    /\ UNCHANGED <<env, k, df, stats, prompt, plots, summaries, cmpVars>>

CmpFail_AppendsBlock ==
    /\ pc = "cmp_check"
    /\ result.returncode # 0
    /\ comparisons' = Append(comparisons, Block(i, Strip(result.stdout)))
    /\ i' = i + 1
    /\ prompt' = NoPrompt
    /\ pc' = "cmp_open"
    /\ UNCHANGED <<env, k, df, stats, result, plots, summaries, outfile, calls>>

\* returncode != 0: the error is printed, continue with the next pair
CmpFail ==
    /\ pc = "cmp_check"
    /\ result.returncode # 0
    /\ i' = i + 1
    /\ prompt' = NoPrompt
    /\ pc' = "cmp_open"
    /\ UNCHANGED <<env, k, df, stats, result, plots, summaries, comparisons, outfile, calls>>

\* returncode == 0: the labelled block is appended to comparisons
CmpAppend ==
    /\ pc = "cmp_check"
    /\ result.returncode = 0
    /\ comparisons' = Append(comparisons, Block(i, Strip(result.stdout)))
    /\ i' = i + 1
    /\ prompt' = NoPrompt
    /\ pc' = "cmp_open"
    /\ UNCHANGED <<env, k, df, stats, result, plots, summaries, outfile, calls>>

\* after the loop: open(output_file, 'w') and writelines(comparisons)
CmpWrite ==
    /\ pc = "cmp_open"
    /\ i >= Len(summary_files) - 1
    /\ outfile' = [exists |-> TRUE, blocks |-> comparisons]
    /\ pc' = "done"
    /\ UNCHANGED <<env, k, genLocals, plots, summaries, i, comparisons, calls>>

\* --------------------------------------------------------- specifications
\* the main flow: four datasets, then the comparison of their summaries
Init ==
    /\ pc = "gen_load"
    /\ csv_data = CsvWeeks
    /\ summary_files = [w \in 1..NumWeeks |-> w]
    /\ k = 1
    /\ df = NoDf
    /\ stats = <<>>
    /\ prompt = NoPrompt
    /\ result = NoResult
    /\ plots = {}
    /\ summaries \in [1..NumWeeks -> {NoFile, OldSummary}]
    /\ summaries_before = summaries
    /\ i = 0
    /\ comparisons = <<>>
    /\ outfile \in {NoDifferences, OldDifferences}
    /\ outfile_before = outfile
    /\ calls = <<>>

Next ==
    \/ GenLoad
    \/ GenStats
    \/ GenPrompt
    \/ GenPlot
    \/ GenRun
    \/ GenFail
    \/ GenWrite
    \/ CmpOpen
    \/ CmpOpenFail
    \/ CmpRun
    \/ CmpFail
    \/ CmpAppend
    \/ CmpWrite

Spec == Init /\ [][Next]_vars

\* statistics, prompt and plots of one dataset, for every dataset of the two families
InitReport ==
    /\ pc = "gen_stats"
    /\ csv_data = <<>>
    /\ summary_files = [w \in 1..NumWeeks |-> w]
    /\ k = 1
    /\ df \in WideDatasets(MaxCols, WideRows) \cup TallDatasets(TallCols, MaxRows)
    /\ stats = <<>>
    /\ prompt = NoPrompt
    /\ result = NoResult
    /\ plots = {}
    /\ summaries = [w \in 1..NumWeeks |-> NoFile]
    /\ summaries_before = summaries
    /\ i = 0
    /\ comparisons = <<>>
    /\ outfile = NoDifferences
    /\ outfile_before = outfile
    /\ calls = <<>>

NextReport ==
    \/ GenStats
    \/ GenPrompt
    \/ GenPlot

SpecReport == InitReport /\ [][NextReport]_vars

\* compare_summaries(summary_files, output_file) on up to MaxFiles files
InitCompare ==
    /\ pc = "cmp_open"
    /\ csv_data = <<>>
    /\ summary_files \in {[w \in 1..n |-> w] : n \in 0..MaxFiles}
    /\ k = 1
    /\ df = NoDf
    /\ stats = <<>>
    /\ prompt = NoPrompt
    /\ result = NoResult
    /\ plots = {}
    /\ summaries \in [DOMAIN summary_files ->
                        {NoFile, OldSummary, File(<<" ", "x", "\n">>)}]
    /\ summaries_before = summaries
    /\ i = 0
    /\ comparisons = <<>>
    /\ outfile \in {NoDifferences, OldDifferences}
    /\ outfile_before = outfile
    /\ calls = <<>>

NextCompare ==
    \/ CmpOpen
    \/ CmpOpenFail
    \/ CmpRun
    \/ CmpFail
    \/ CmpAppend
    \/ CmpWrite

SpecCompare == InitCompare /\ [][NextCompare]_vars

\* ------------------------------------------------------------- properties
Ran == {"done", "crashed"}

CompareStage == {"cmp_open", "cmp_run", "cmp_check"}

\* the weeks whose generate_summary call has returned
Returned == 1..(k - 1)

\* the external calls of one kind, in the order they were made
CallsOf(kind) == SelectSeq(calls, LAMBDA c : c.kind = kind)

\* t is s without its leading and trailing whitespace
IsTrimOf(t, s) ==
    \E a, b \in 0..Len(s) :
        /\ a + b <= Len(s)
        /\ t = SubSeq(s, a + 1, Len(s) - b)
        /\ \A x \in 1..a : s[x] \in Whitespace
        /\ \A x \in (Len(s) - b + 1)..Len(s) : s[x] \in Whitespace
        /\ t = <<>> \/ (t[1] \notin Whitespace /\ t[Len(t)] \notin Whitespace)

\* C1: a failed external call never ends the run: whatever the outcomes of
\* the calls and whatever the summaries directory held, the run does not stop
\* before the final write of the comparison file.
C1_FailureNeverEndsRun == pc # "crashed"

\* C2: once generate_summary has returned for a week, a failed call has left
\* that week's summary file exactly as it was before the run and a successful
\* call has written it; and the loop reaches every later week, so that by the
\* time the comparison starts each of the four weeks had its one call.
C2_FailedSummaryUntouched ==
    /\ \A w \in Returned :
          /\ calls[w].kind = "summary" /\ calls[w].index = w
          /\ ~calls[w].ok => summaries[w] = summaries_before[w]
          /\ calls[w].ok => summaries[w].exists /\ summaries[w] # OldSummary
    /\ pc \in CompareStage \cup Ran => Returned = 1..NumWeeks

\* week2 failed and kept its old file; weeks 1, 3 and 4 were written
C2_Witness ==
    /\ k = NumWeeks + 1
    /\ ~calls[2].ok /\ calls[1].ok /\ calls[3].ok /\ calls[4].ok
    /\ summaries_before[2] = OldSummary /\ summaries[2] = OldSummary
    /\ \A w \in {1, 3, 4} : summaries[w] # summaries_before[w]

ExpectedCalls ==
    [x \in 1..(2 * NumWeeks - 1) |->
        IF x <= NumWeeks THEN <<"summary", x>> ELSE <<"compare", x - NumWeeks>>]

\* C5: the external calls are made in one fixed order without retries: one
\* per dataset in the order week1..week4 whatever the outcomes, the first
\* comparison call only after the fourth dataset, then at most one call per
\* adjacent pair in the order (1,2), (2,3), (3,4).
C5_FixedCallOrder ==
    /\ Len(calls) <= Len(ExpectedCalls)
    /\ \A x \in DOMAIN calls : <<calls[x].kind, calls[x].index>> = ExpectedCalls[x]
    /\ pc \in CompareStage \cup Ran => Len(calls) >= NumWeeks
    /\ pc = "done" => Len(calls) = Len(ExpectedCalls)

\* a complete run in which a dataset call and a comparison call failed
C5_Witness ==
    /\ pc = "done"
    /\ Len(calls) = 2 * NumWeeks - 1
    /\ ~calls[2].ok
    /\ ~calls[NumWeeks + 2].ok

\* the plot files of one week's dataset
WeekPlots(w) == PlotFiles(head(dropna(csv_data[w])), csv_files[w])

\* C6: the plots of a dataset are saved before the external process is called
\* and do not depend on its outcome: from the call on, and after
\* generate_summary has returned with success or with failure (up to the first
\* step of the comparison), the plot files are those of every dataset handled
\* so far.
C6_PlotsIndependentOfOutcome ==
    (pc \notin CompareStage \cup Ran \/ (pc = "cmp_open" /\ i = 0)) =>
        plots = UNION {WeekPlots(w) :
                         w \in 1..(IF pc \in {"gen_run", "gen_check"} THEN k ELSE k - 1)}

\* one call succeeded, the next failed, and both weeks have their plots
C6_Witness ==
    /\ pc = "gen_load" /\ k = 3
    /\ calls[1].ok /\ ~calls[2].ok
    /\ WeekPlots(1) # {} /\ WeekPlots(2) # {}
    /\ WeekPlots(1) \cup WeekPlots(2) \subseteq plots

\* C10: compare_summaries writes the output file only once, after the loop:
\* until then the file is as it was before the call, and when opening a
\* summary file raises the run ends with the file still as it was, so the
\* blocks collected for earlier pairs are lost.
C10_WrittenOnlyAfterLoop ==
    /\ pc # "done" => outfile = outfile_before
    /\ pc = "done" => outfile = [exists |-> TRUE, blocks |-> comparisons]

\* week3 was never written; the block of pair (1,2) is collected and lost
C10_Witness ==
    /\ pc = "crashed"
    /\ ~calls[3].ok /\ ~summaries[3].exists
    /\ Len(comparisons) = 1
    /\ outfile = NoDifferences

\* C4: when compare_summaries has run over files that all exist, the output
\* file holds one block per adjacent pair whose call succeeded and none for a
\* pair whose call failed, in increasing pair order, each labelled with the
\* 1-based weeks i+1 and i+2 of its pair; every pair had its one call; when
\* every call failed the file exists and is empty.
C4_OneBlockPerSuccessfulPair ==
    pc = "done" =>
        LET made == CallsOf("compare")
            good == SelectSeq(made, LAMBDA c : c.ok)
        IN /\ outfile.exists
           /\ Len(made) = (IF Len(summary_files) = 0 THEN 0 ELSE Len(summary_files) - 1)
           /\ \A x \in DOMAIN made : made[x].index = x
           /\ Len(outfile.blocks) = Len(good)
           /\ \A x \in DOMAIN good :
                 /\ outfile.blocks[x].week_a = good[x].index
                 /\ outfile.blocks[x].week_b = good[x].index + 1
           /\ (\A x \in DOMAIN made : ~made[x].ok) => outfile.blocks = <<>>

\* four files, only the call for pair (2,3) failed: blocks (1,2) and (3,4)
C4_Witness ==
    /\ pc = "done"
    /\ Len(summary_files) = 4
    /\ LET made == CallsOf("compare")
       IN Len(made) = 3 /\ made[1].ok /\ ~made[2].ok /\ made[3].ok
    /\ Len(outfile.blocks) = 2
    /\ outfile.blocks[1].week_a = 1 /\ outfile.blocks[1].week_b = 2
    /\ outfile.blocks[2].week_a = 3 /\ outfile.blocks[2].week_b = 4

\* the files under plots/<base name of the first dataset>/
WrittenPlots == {f \in plots : f.folder = splitext0(basename(csv_files[k]))}

\* C7: after plot_metrics the dataset's plot directory holds one image file
\* per numeric column: as many files as there are numeric columns, each named
\* after the sanitized name of a numeric column.
C7_OneFilePerNumericColumn ==
    pc = "gen_run" =>
        /\ Cardinality(WrittenPlots) = Cardinality(NumericCols(df))
        /\ \A f \in WrittenPlots :
              \E c \in NumericCols(df) : f.name = clean_filename(df.columns[c]) \o png

\* where a column stands in the catalog
CatalogIndex(col) == CHOOSE x \in DOMAIN COLUMN_DESCRIPTIONS : COLUMN_DESCRIPTIONS[x].col = col

\* C8: the description section of the prompt lists a column exactly when it
\* is a column of the dataset and a key of the catalog, in catalog order with
\* the catalog's description; the statistics section has the header and the
\* five metric lines of every numeric column, in or out of the catalog, in
\* dataset order.
C8_DescriptionsAreCatalogColumnsPresent ==
    pc \in {"gen_plot", "gen_run"} =>
        LET d == prompt.descriptions
            t == prompt.stats_text
            numeric == SelectSeq([c \in DOMAIN df.columns |-> c],
                                 LAMBDA c : df.numeric[c])
        IN /\ {d[x].col : x \in DOMAIN d} = Range(df.columns) \cap CatalogCols
           /\ \A x \in DOMAIN d : d[x] \in Range(COLUMN_DESCRIPTIONS)
           /\ \A x, y \in DOMAIN d :
                 x < y => CatalogIndex(d[x].col) < CatalogIndex(d[y].col)
           /\ Len(t) = Len(numeric)
           /\ \A x \in DOMAIN t :
                 /\ t[x].header = df.columns[numeric[x]]
                 /\ [l \in DOMAIN t[x].lines |-> t[x].lines[l].stat]
                       = <<"mean", "median", "std", "min", "max">>

\* dataset order latencyRead, queueLength: listed as queueLength, latencyRead
C8_Witness ==
    /\ pc = "gen_run"
    /\ df.columns = <<latencyRead, queueLength>>
    /\ [x \in DOMAIN prompt.descriptions |-> prompt.descriptions[x].col]
          = <<queueLength, latencyRead>>

\* the standard deviation is defined and not negative
StdNonNegative(sd) == ~sd.nan /\ sd.num >= 0

Ordered(m) ==
    /\ Leq(m.min, m.mean) /\ Leq(m.mean, m.max)
    /\ Leq(m.min, m.median) /\ Leq(m.median, m.max)
    /\ StdNonNegative(m.std)

AllNumeric == \A c \in DOMAIN df.columns : df.numeric[c]

OneEntryPerColumn ==
    /\ Len(stats) = Len(df.columns)
    /\ \A c \in DOMAIN df.columns : stats[c].col = df.columns[c]

====
